---- MODULE Spec2Model ----
(***************************************************************************)
(* A model of sqlite3-schema-manager.js: the reconciliation of declared    *)
(* table definitions against a live SQLite database through the select /   *)
(* execute collaborators.                                                  *)
(*                                                                         *)
(* Strings are sequences of tokens.  A token is either the single quote    *)
(* character Q or a quote-free piece of text (a letter, a word, a name).   *)
(* A JavaScript value that may be null is a record [null, str].            *)
(***************************************************************************)
EXTENDS Integers, Sequences, FiniteSets, TLC

VARIABLES
    tbldefs,              \* argument of updateSchemasForAllTables
    db,                   \* the SQLite database behind select / execute
    run,                  \* number of updateSchemasForAllTables calls started
    tblidx,               \* loop variable of updateSchemasForAllTables
    pc,                   \* position of the (single) thread of control
    waiting,              \* suspended at an await
    inflight,             \* select / execute calls issued and not yet completed
    resp,                 \* result delivered to the awaiting call site
    thrown,               \* the exception that left updateSchemasForAllTables
    log,                  \* history: every issue / completion / failure
    disabledForeignKeys,  \* local of updateSchemaForSingleTable
    cmdlist, cmdi, after, \* executeSQLCommands: argument, loop index, caller position
    batch,                \* history: statements this executeSQLCommands call passed to execute
    loc,                  \* locals of updateExistingTable
    entry,                \* history: database at entry of updateSchemaForSingleTable
    value, quoted         \* argument and result of a call of quote

vars == <<tbldefs, db, run, tblidx, pc, waiting, inflight, resp, thrown, log,
          disabledForeignKeys, cmdlist, cmdi, after, batch, loc, entry, value, quoted>>

\* ------------------------------------------------------------------ bounds
MaxRuns == 2
MaxIndexes == 2
MaxSeeds == 2
MaxLen == 5

\* ----------------------------------------------------------------- strings
Q == "'"
JSNull == [null |-> TRUE, str |-> <<>>]
Str(s) == [null |-> FALSE, str |-> s]
NULLText == <<"NULL">>

\* Index of the first occurrence of pat in s, 0 if none.
IndexOf(s, pat) ==
    LET hits == {i \in 1..Len(s) : /\ i + Len(pat) - 1 <= Len(s)
                                   /\ SubSeq(s, i, i + Len(pat) - 1) = pat}
    IN IF hits = {} THEN 0 ELSE CHOOSE i \in hits : \A j \in hits : i <= j

\* String.prototype.replace with a string pattern: the first occurrence only.
ReplaceFirst(s, pat, rep) ==
    LET i == IndexOf(s, pat)
    IN IF i = 0 THEN s
       ELSE SubSeq(s, 1, i - 1) \o rep \o SubSeq(s, i + Len(pat), Len(s))

quote(v) ==
    IF v.null THEN NULLText
    ELSE <<Q>> \o ReplaceFirst(v.str, <<Q>>, <<Q, Q>>) \o <<Q>>

\* unquote: [ok, val]; ok = FALSE is the throw of line 42.
unquote(v) ==
    IF v.null THEN [ok |-> TRUE, val |-> JSNull]
    ELSE IF v.str = <<>> THEN [ok |-> TRUE, val |-> Str(<<>>)]
    ELSE IF Len(v.str) < 2 \/ v.str[1] # Q \/ v.str[Len(v.str)] # Q
         THEN [ok |-> FALSE, val |-> JSNull]
    ELSE IF Len(v.str) = 2 THEN [ok |-> TRUE, val |-> Str(<<>>)]
    ELSE [ok |-> TRUE,
          val |-> Str(ReplaceFirst(SubSeq(v.str, 2, Len(v.str) - 1), <<Q, Q>>, <<Q>>))]

ToLowerCase(s) == [i \in 1..Len(s) |-> IF s[i] = "NULL" THEN "null" ELSE s[i]]

parseDefaultValue(v) ==
    IF v.null \/ ToLowerCase(v.str) = <<"null">>
    THEN [ok |-> TRUE, val |-> JSNull]
    ELSE unquote(v)

\* ------------------------------------------------- definition normalizer
getArray(obj, arrayAttrName) ==
    IF arrayAttrName \in DOMAIN obj THEN obj[arrayAttrName] ELSE <<>>

getObject(obj, objectAttrName) ==
    IF objectAttrName \in DOMAIN obj THEN obj[objectAttrName] ELSE <<>>

getFKAction(obj, actionAttrName) ==
    IF actionAttrName \in DOMAIN obj THEN obj[actionAttrName] ELSE "NO ACTION"

\* A JavaScript object with ordered keys is a sequence of [cn, v] pairs.
HasKey(obj, k) == \E i \in 1..Len(obj) : obj[i].cn = k

Names(s) == [i \in 1..Len(s) |-> s[i].name]
Range(s) == {s[i] : i \in 1..Len(s)}

\* ------------------------------------------------------------ comparisons
doIndexesMatch(idxdef1, idxdef2) ==
    /\ idxdef1.origin = idxdef2.origin
    /\ getArray(idxdef1, "columns") = getArray(idxdef2, "columns")

doForeignKeysMatch(fkdef1, fkdef2) ==
    /\ fkdef1.table = fkdef2.table
    /\ getFKAction(fkdef1, "on_update") = getFKAction(fkdef2, "on_update")
    /\ getFKAction(fkdef1, "on_delete") = getFKAction(fkdef2, "on_delete")
    /\ getArray(fkdef1, "references") = getArray(fkdef2, "references")

\* ----------------------------------------------------------- SQL generator
columnDefinitionToSQL(coldef) ==
    [name |-> coldef.name, type |-> coldef.type, alias |-> FALSE,
     notnull |-> coldef.notnull, dflt |-> quote(coldef.dflt_value)]

indexDefinitionToSQL(idxdef, tableName) ==
    [op |-> "create_index", unique |-> idxdef.origin = "u", name |-> idxdef.name,
     table |-> tableName, columns |-> getArray(idxdef, "columns")]

foreignKeyDefinitionToSQL(fkdef) ==
    [table |-> fkdef.table, references |-> getArray(fkdef, "references"),
     on_update |-> getFKAction(fkdef, "on_update"),
     on_delete |-> getFKAction(fkdef, "on_delete")]

\* The last pk-origin entry of the declaration, <<>> when there is none.
DeclaredPK(tbldef) ==
    LET pks == SelectSeq(getArray(tbldef, "indexes"), LAMBDA d : d.origin = "pk")
    IN IF pks = <<>> THEN <<>> ELSE <<pks[Len(pks)]>>

getCreateTableSQL(tbldef, tableName) ==
    LET pk == DeclaredPK(tbldef)
        pkcols == IF pk = <<>> THEN <<>> ELSE getArray(pk[1], "columns")
        columns == getArray(tbldef, "columns")
        IsAlias(coldef) == /\ Len(pkcols) = 1
                           /\ coldef.name = pkcols[1]
                           /\ coldef.type = "INTEGER"
        anyAlias == \E i \in 1..Len(columns) : IsAlias(columns[i])
    IN [op |-> "create_table", table |-> tableName,
        cols |-> [i \in 1..Len(columns) |->
                    IF IsAlias(columns[i])
                    THEN [name |-> columns[i].name, type |-> "INTEGER", alias |-> TRUE,
                          notnull |-> FALSE, dflt |-> <<>>]
                    ELSE columnDefinitionToSQL(columns[i])],
        pk |-> IF pk # <<>> /\ ~anyAlias THEN pkcols ELSE <<>>,
        fks |-> [i \in 1..Len(getArray(tbldef, "foreign_keys")) |->
                    foreignKeyDefinitionToSQL(getArray(tbldef, "foreign_keys")[i])]]

getCreateIndexSQLs(tbldef, tableName) ==
    LET cu == SelectSeq(getArray(tbldef, "indexes"),
                        LAMBDA d : d.origin = "c" \/ d.origin = "u")
    IN [i \in 1..Len(cu) |-> indexDefinitionToSQL(cu[i], tableName)]

\* The timestamp suffix of the temporary name is one token.
TmpName(tbldef) == tbldef.name \o <<"_new_">>

QuotePairs(obj) == [i \in 1..Len(obj) |-> [cn |-> obj[i].cn, v |-> quote(obj[i].v)]]

InsertOnCreateSQLs(tbldef) ==
    LET iocs == getArray(tbldef, "insert_on_create")
    IN [i \in 1..Len(iocs) |->
          [op |-> "insert", table |-> tbldef.name,
           columns |-> [j \in 1..Len(iocs[i]) |-> iocs[i][j].cn],
           values |-> [j \in 1..Len(iocs[i]) |-> quote(iocs[i][j].v)]]]

InsertIfNotExistsSQLs(tbldef) ==
    LET ds == SelectSeq(getArray(tbldef, "insert_if_not_exists"),
                        LAMBDA d : getObject(d, "identifiers") # <<>>)
        Stmt(d) ==
            LET identifiers == getObject(d, "identifiers")
                others == SelectSeq(getObject(d, "other_values"),
                                    LAMBDA p : ~HasKey(identifiers, p.cn))
                all == identifiers \o others
            IN [op |-> "insert_if_not_exists", table |-> tbldef.name,
                columns |-> [j \in 1..Len(all) |-> all[j].cn],
                values |-> [j \in 1..Len(all) |-> quote(all[j].v)],
                where |-> QuotePairs(identifiers)]
    IN [i \in 1..Len(ds) |-> Stmt(ds[i])]

UpdateIfExistsSQLs(tbldef) ==
    LET ds == SelectSeq(getArray(tbldef, "update_if_exists"),
                        LAMBDA d : /\ getObject(d, "other_values") # <<>>
                                   /\ getObject(d, "identifiers") # <<>>)
    IN [i \in 1..Len(ds) |->
          [op |-> "update", table |-> tbldef.name,
           set |-> QuotePairs(getObject(ds[i], "other_values")),
           where |-> QuotePairs(getObject(ds[i], "identifiers"))]]

DeleteIfExistsSQLs(tbldef) ==
    LET ds == SelectSeq(getArray(tbldef, "delete_if_exists"), LAMBDA d : d # <<>>)
    IN [i \in 1..Len(ds) |->
          [op |-> "delete", table |-> tbldef.name, where |-> QuotePairs(ds[i])]]

\* ------------------------------------------------ the database (SQLite)
\* What execute(sql) and select(sql) do on the other side of the collaborator
\* interface.  db = [tables, foreign_keys]; tables maps a table name to
\* [cols, pkindex, indexes, fks, rows]; a row maps column names to values.

RECURSIVE Unescape(_)
\* The body of a string literal: every quote must be doubled.
Unescape(s) ==
    IF s = <<>> THEN [ok |-> TRUE, str |-> <<>>]
    ELSE IF s[1] # Q
         THEN LET r == Unescape(Tail(s))
              IN [ok |-> r.ok, str |-> <<s[1]>> \o r.str]
    ELSE IF Len(s) < 2 \/ s[2] # Q THEN [ok |-> FALSE, str |-> <<>>]
    ELSE LET r == Unescape(SubSeq(s, 3, Len(s)))
         IN [ok |-> r.ok, str |-> <<Q>> \o r.str]

\* The value of a literal as the SQL parser reads it; ok = FALSE: syntax error.
SqlLiteral(text) ==
    IF text = NULLText THEN [ok |-> TRUE, val |-> JSNull]
    ELSE IF Len(text) < 2 \/ text[1] # Q \/ text[Len(text)] # Q
         THEN [ok |-> FALSE, val |-> JSNull]
    ELSE LET r == Unescape(SubSeq(text, 2, Len(text) - 1))
         IN [ok |-> r.ok, val |-> Str(r.str)]

HasTable(d, t) == t \in DOMAIN d.tables
ColNames(tab) == {tab.cols[i].name : i \in 1..Len(tab.cols)}
ColOf(tab, c) == CHOOSE col \in Range(tab.cols) : col.name = c
AllIndexNames(d) == {x.name : x \in UNION {Range(d.tables[t].indexes) : t \in DOMAIN d.tables}}
AutoIndexName(t) == <<"sqlite_autoindex_">> \o t
Position(seq, x) == IF \E i \in 1..Len(seq) : seq[i] = x
                    THEN CHOOSE i \in 1..Len(seq) : seq[i] = x ELSE 0
WithTable(d, t, tab) ==
    [d EXCEPT !.tables = [n \in DOMAIN d.tables \cup {t} |-> IF n = t THEN tab ELSE d.tables[n]]]
WithoutTable(d, t) ==
    [d EXCEPT !.tables = [n \in DOMAIN d.tables \ {t} |-> d.tables[n]]]
Distinct(seq) == \A i, j \in 1..Len(seq) : seq[i] = seq[j] => i = j

\* The value a column takes when an INSERT names no value for it.
DefaultOf(col) ==
    IF col.dflt_value.null
    THEN (IF col.pk = 1 /\ col.type = "INTEGER" THEN Str(<<"rowid">>) ELSE JSNull)
    ELSE SqlLiteral(col.dflt_value.str).val

\* A column of CREATE TABLE / ADD COLUMN as pragma table_info reports it.
LiveColumn(cl, pkcols) ==
    [name |-> cl.name, type |-> cl.type,
     notnull |-> IF cl.notnull THEN 1 ELSE 0,
     dflt_value |-> IF cl.alias THEN JSNull ELSE Str(cl.dflt),
     pk |-> IF cl.alias THEN 1 ELSE Position(pkcols, cl.name)]

CreateTable(d, st) ==
    LET names == [i \in 1..Len(st.cols) |-> st.cols[i].name]
        ok == /\ ~HasTable(d, st.table)
              /\ st.cols # <<>>
              /\ Distinct(names)
              /\ \A i \in 1..Len(st.cols) : st.cols[i].alias \/ SqlLiteral(st.cols[i].dflt).ok
              /\ Range(st.pk) \subseteq Range(names)
              /\ \A i \in 1..Len(st.fks) :
                    /\ st.fks[i].references # <<>>
                    /\ \A j \in 1..Len(st.fks[i].references) :
                          st.fks[i].references[j].from \in Range(names)
        rowid == /\ Len(st.pk) = 1
                 /\ \E i \in 1..Len(st.cols) :
                       st.cols[i].name = st.pk[1] /\ st.cols[i].type = "INTEGER"
        tab == [cols |-> [i \in 1..Len(st.cols) |-> LiveColumn(st.cols[i], st.pk)],
                pkindex |-> st.pk # <<>> /\ ~rowid,
                indexes |-> <<>>, fks |-> st.fks, rows |-> <<>>]
    IN IF ok THEN [ok |-> TRUE, db |-> WithTable(d, st.table, tab)]
       ELSE [ok |-> FALSE, db |-> d]

\* New indexes are reported first by pragma index_list.
CreateIndex(d, st) ==
    IF /\ HasTable(d, st.table)
       /\ st.name \notin AllIndexNames(d)
       /\ st.columns # <<>>
       /\ Range(st.columns) \subseteq ColNames(d.tables[st.table])
    THEN [ok |-> TRUE,
          db |-> WithTable(d, st.table,
                   [d.tables[st.table] EXCEPT !.indexes =
                      <<[name |-> st.name, unique |-> IF st.unique THEN 1 ELSE 0,
                         columns |-> st.columns]>> \o @])]
    ELSE [ok |-> FALSE, db |-> d]

DropIndex(d, st) ==
    IF st.name \in AllIndexNames(d)
    THEN [ok |-> TRUE,
          db |-> [d EXCEPT !.tables = [t \in DOMAIN d.tables |->
                    [d.tables[t] EXCEPT !.indexes = SelectSeq(@, LAMBDA x : x.name # st.name)]]]]
    ELSE [ok |-> FALSE, db |-> d]

DropTable(d, st) ==
    IF HasTable(d, st.table) THEN [ok |-> TRUE, db |-> WithoutTable(d, st.table)]
    ELSE [ok |-> FALSE, db |-> d]

RenameTable(d, st) ==
    IF HasTable(d, st.table) /\ ~HasTable(d, st.to)
    THEN [ok |-> TRUE, db |-> WithTable(WithoutTable(d, st.table), st.to, d.tables[st.table])]
    ELSE [ok |-> FALSE, db |-> d]

NotNullOK(tab, row) ==
    \A i \in 1..Len(tab.cols) : tab.cols[i].notnull = 1 => ~row[tab.cols[i].name].null

InsertSelect(d, st) ==
    IF /\ HasTable(d, st.table) /\ HasTable(d, st.from)
       /\ st.columns # <<>>
       /\ Range(st.columns) \subseteq ColNames(d.tables[st.table])
       /\ Range(st.columns) \subseteq ColNames(d.tables[st.from])
    THEN LET into == d.tables[st.table]
             src == d.tables[st.from].rows
             new == [i \in 1..Len(src) |->
                       [c \in ColNames(into) |->
                          IF c \in Range(st.columns) THEN src[i][c]
                          ELSE DefaultOf(ColOf(into, c))]]
         IN IF \A i \in 1..Len(new) : NotNullOK(into, new[i])
            THEN [ok |-> TRUE, db |-> WithTable(d, st.table, [into EXCEPT !.rows = @ \o new])]
            ELSE [ok |-> FALSE, db |-> d]
    ELSE [ok |-> FALSE, db |-> d]

\* ALTER TABLE takes one ADD COLUMN or DROP COLUMN: a list of clauses is a syntax error.
AlterTable(d, st) ==
    IF ~HasTable(d, st.table) \/ Len(st.clauses) # 1 THEN [ok |-> FALSE, db |-> d]
    ELSE LET tab == d.tables[st.table]
             cl == st.clauses[1]
         IN IF cl.kind = "drop"
            THEN IF /\ cl.name \in ColNames(tab)
                    /\ Len(tab.cols) > 1
                    /\ ColOf(tab, cl.name).pk = 0
                    /\ \A x \in Range(tab.indexes) : cl.name \notin Range(x.columns)
                    /\ \A f \in Range(tab.fks) : \A r \in Range(f.references) : r.from # cl.name
                 THEN [ok |-> TRUE,
                       db |-> WithTable(d, st.table,
                                [tab EXCEPT !.cols = SelectSeq(@, LAMBDA c : c.name # cl.name),
                                            !.rows = [i \in 1..Len(@) |->
                                                [c \in ColNames(tab) \ {cl.name} |-> @[i][c]]]])]
                 ELSE [ok |-> FALSE, db |-> d]
            ELSE IF /\ cl.col.name \notin ColNames(tab)
                    /\ SqlLiteral(cl.col.dflt).ok
                    /\ ~(cl.col.notnull /\ SqlLiteral(cl.col.dflt).val.null)
                 THEN [ok |-> TRUE,
                       db |-> WithTable(d, st.table,
                                [tab EXCEPT !.cols = Append(@, LiveColumn(cl.col, <<>>)),
                                            !.rows = [i \in 1..Len(@) |->
                                                [c \in ColNames(tab) \cup {cl.col.name} |->
                                                    IF c = cl.col.name
                                                    THEN SqlLiteral(cl.col.dflt).val
                                                    ELSE @[i][c]]]])]
                 ELSE [ok |-> FALSE, db |-> d]

\* WHERE cn = literal AND ...
Matches(row, where) ==
    \A i \in 1..Len(where) :
        /\ ~SqlLiteral(where[i].v).val.null
        /\ row[where[i].cn] = SqlLiteral(where[i].v).val
WhereOK(tab, where) ==
    \A i \in 1..Len(where) : where[i].cn \in ColNames(tab) /\ SqlLiteral(where[i].v).ok

Insert(d, st, conditional) ==
    IF /\ HasTable(d, st.table)
       /\ st.columns # <<>>
       /\ Range(st.columns) \subseteq ColNames(d.tables[st.table])
       /\ \A i \in 1..Len(st.values) : SqlLiteral(st.values[i]).ok
       /\ conditional => WhereOK(d.tables[st.table], st.where)
    THEN LET tab == d.tables[st.table]
             row == [c \in ColNames(tab) |->
                       IF c \in Range(st.columns)
                       THEN SqlLiteral(st.values[Position(st.columns, c)]).val
                       ELSE DefaultOf(ColOf(tab, c))]
             skip == conditional /\ \E i \in 1..Len(tab.rows) : Matches(tab.rows[i], st.where)
         IN IF skip THEN [ok |-> TRUE, db |-> d]
            ELSE IF NotNullOK(tab, row)
            THEN [ok |-> TRUE, db |-> WithTable(d, st.table, [tab EXCEPT !.rows = Append(@, row)])]
            ELSE [ok |-> FALSE, db |-> d]
    ELSE [ok |-> FALSE, db |-> d]

Update(d, st) ==
    IF /\ HasTable(d, st.table)
       /\ WhereOK(d.tables[st.table], st.where)
       /\ WhereOK(d.tables[st.table], st.set)
    THEN LET tab == d.tables[st.table]
             new == [i \in 1..Len(tab.rows) |->
                       IF Matches(tab.rows[i], st.where)
                       THEN [c \in ColNames(tab) |->
                               IF HasKey(st.set, c)
                               THEN SqlLiteral((CHOOSE p \in Range(st.set) : p.cn = c).v).val
                               ELSE tab.rows[i][c]]
                       ELSE tab.rows[i]]
         IN IF \A i \in 1..Len(new) : NotNullOK(tab, new[i])
            THEN [ok |-> TRUE, db |-> WithTable(d, st.table, [tab EXCEPT !.rows = new])]
            ELSE [ok |-> FALSE, db |-> d]
    ELSE [ok |-> FALSE, db |-> d]

Delete(d, st) ==
    IF HasTable(d, st.table) /\ WhereOK(d.tables[st.table], st.where)
    THEN [ok |-> TRUE,
          db |-> WithTable(d, st.table,
                   [d.tables[st.table] EXCEPT !.rows =
                      SelectSeq(@, LAMBDA r : ~Matches(r, st.where))])]
    ELSE [ok |-> FALSE, db |-> d]

\* execute(sql): [ok, db]; ok = FALSE: the statement is rejected and changes nothing.
Execute(d, st) ==
    CASE st.op = "pragma_foreign_keys_set" ->
            [ok |-> TRUE, db |-> [d EXCEPT !.foreign_keys = st.value]]
      [] st.op = "create_table" -> CreateTable(d, st)
      [] st.op = "create_index" -> CreateIndex(d, st)
      [] st.op = "drop_index" -> DropIndex(d, st)
      [] st.op = "drop_table" -> DropTable(d, st)
      [] st.op = "rename_table" -> RenameTable(d, st)
      [] st.op = "insert_select" -> InsertSelect(d, st)
      [] st.op = "alter_table" -> AlterTable(d, st)
      [] st.op = "insert" -> Insert(d, st, FALSE)
      [] st.op = "insert_if_not_exists" -> Insert(d, st, TRUE)
      [] st.op = "update" -> Update(d, st)
      [] st.op = "delete" -> Delete(d, st)

RECURSIVE Flatten(_)
Flatten(ss) == IF ss = <<>> THEN <<>> ELSE Head(ss) \o Flatten(Tail(ss))

PKColumns(tab) ==
    LET n == Cardinality({i \in 1..Len(tab.cols) : tab.cols[i].pk > 0})
    IN [k \in 1..n |-> (CHOOSE c \in Range(tab.cols) : c.pk = k).name]

IndexListRows(tab, t) ==
    [i \in 1..Len(tab.indexes) |->
        [name |-> tab.indexes[i].name, origin |-> "c", unique |-> tab.indexes[i].unique]]
    \o (IF tab.pkindex
        THEN <<[name |-> AutoIndexName(t), origin |-> "pk", unique |-> 1]>> ELSE <<>>)

IndexInfoRows(d, n) ==
    LET owners == {t \in DOMAIN d.tables : \E x \in Range(d.tables[t].indexes) : x.name = n}
        autos == {t \in DOMAIN d.tables : d.tables[t].pkindex /\ AutoIndexName(t) = n}
    IN IF owners # {}
       THEN LET x == CHOOSE x \in Range(d.tables[CHOOSE t \in owners : TRUE].indexes) : x.name = n
            IN [i \in 1..Len(x.columns) |-> [name |-> x.columns[i]]]
       ELSE IF autos # {}
       THEN LET pkc == PKColumns(d.tables[CHOOSE t \in autos : TRUE])
            IN [i \in 1..Len(pkc) |-> [name |-> pkc[i]]]
       ELSE <<>>

ForeignKeyListRows(tab) ==
    Flatten([i \in 1..Len(tab.fks) |->
        [j \in 1..Len(tab.fks[i].references) |->
            [id |-> i - 1, table |-> tab.fks[i].table,
             from |-> tab.fks[i].references[j].from, to |-> tab.fks[i].references[j].to,
             on_update |-> tab.fks[i].on_update, on_delete |-> tab.fks[i].on_delete]]])

\* select(sql): [ok, rows]
Select(d, st) ==
    IF st.op = "pragma_foreign_keys"
    THEN [ok |-> TRUE, rows |-> <<[foreign_keys |-> d.foreign_keys]>>]
    ELSE LET arg == SqlLiteral(st.arg)
         IN IF ~arg.ok \/ arg.val.null THEN [ok |-> FALSE, rows |-> <<>>]
            ELSE IF st.op = "pragma_index_info"
                 THEN [ok |-> TRUE, rows |-> IndexInfoRows(d, arg.val.str)]
            ELSE IF ~HasTable(d, arg.val.str) THEN [ok |-> TRUE, rows |-> <<>>]
            ELSE LET tab == d.tables[arg.val.str]
                 IN [ok |-> TRUE,
                     rows |-> CASE st.op = "pragma_table_info" -> tab.cols
                                [] st.op = "pragma_index_list" -> IndexListRows(tab, arg.val.str)
                                [] st.op = "pragma_foreign_key_list" -> ForeignKeyListRows(tab)]

\* ------------------------------------------------------------ differencer
\* old_coldefs_by_name, in insertion order; ok = FALSE: parseDefaultValue threw.
OldColumns(rows) ==
    [ok |-> \A i \in 1..Len(rows) : parseDefaultValue(rows[i].dflt_value).ok,
     cols |-> [i \in 1..Len(rows) |->
                [name |-> rows[i].name, type |-> rows[i].type,
                 notnull |-> rows[i].notnull # 0,
                 dflt_value |-> parseDefaultValue(rows[i].dflt_value).val]]]

\* Names of the rows with pk > 0, sorted by pk.
OldPKColsFromTableInfo(rows) ==
    LET n == Cardinality({i \in 1..Len(rows) : rows[i].pk > 0})
    IN [k \in 1..n |-> rows[CHOOSE i \in 1..Len(rows) : rows[i].pk = k].name]

NewIndexes(tbldef) ==
    SelectSeq(getArray(tbldef, "indexes"), LAMBDA d : d.origin = "c" \/ d.origin = "u")

HasName(defs, k) == \E i \in 1..Len(defs) : defs[i].name = k
ByName(defs, k) == defs[CHOOSE i \in 1..Len(defs) : defs[i].name = k]

DropColumnSQLs(old, tbldef) ==
    LET gone == SelectSeq(old, LAMBDA c : ~HasName(getArray(tbldef, "columns"), c.name))
    IN [i \in 1..Len(gone) |-> [kind |-> "drop", name |-> gone[i].name]]

AddColumnSQLs(old, tbldef) ==
    LET added == SelectSeq(getArray(tbldef, "columns"), LAMBDA c : ~HasName(old, c.name))
    IN [i \in 1..Len(added) |->
          [kind |-> "add", name |-> added[i].name, col |-> columnDefinitionToSQL(added[i])]]

CommonColnames(old, tbldef) ==
    Names(SelectSeq(getArray(tbldef, "columns"), LAMBDA c : HasName(old, c.name)))

\* The comparison without the exceptions for primary key columns.
ColumnDiffersWithoutExceptions(old_coldef, new_coldef, new_pk) ==
    \/ old_coldef.type # new_coldef.type
    \/ old_coldef.notnull # new_coldef.notnull
    \/ old_coldef.dflt_value # new_coldef.dflt_value

\* Lines 287-297 for one column present on both sides.
ColumnDiffers(old_coldef, new_coldef, new_pk) ==
    LET is_pk_col == new_pk # <<>> /\ new_coldef.name \in Range(getArray(new_pk[1], "columns"))
        is_pk_auto_int_col == /\ is_pk_col
                              /\ new_coldef.type = "INTEGER"
                              /\ Len(new_pk[1].columns) = 1
    IN \/ old_coldef.type # new_coldef.type
       \/ ~is_pk_col /\ old_coldef.notnull # new_coldef.notnull
       \/ ~is_pk_auto_int_col /\ old_coldef.dflt_value # new_coldef.dflt_value

ColumnsNeedReWrite(old, tbldef) ==
    \E c \in Range(getArray(tbldef, "columns")) :
        HasName(old, c.name) /\ ColumnDiffers(ByName(old, c.name), c, DeclaredPK(tbldef))

\* Lines 309-322: old_idxdefs_by_name and old_pk from the rows of index_list.
OldIndexes(rows) ==
    LET cu == SelectSeq(rows, LAMBDA r : r.origin = "c" \/ r.origin = "u")
    IN [i \in 1..Len(cu) |->
          [name |-> cu[i].name,
           origin |-> IF cu[i].origin = "c" /\ cu[i].unique # 0 THEN "u" ELSE cu[i].origin,
           columns |-> <<>>]]

OldPK(rows) ==
    LET pks == SelectSeq(rows, LAMBDA r : r.origin = "pk")
    IN IF pks = <<>> THEN <<>>
       ELSE <<[name |-> pks[Len(pks)].name, origin |-> "pk", columns |-> <<>>]>>

\* Lines 345-355.
PrimaryKeyChanged(old_pk, new_pk) ==
    \/ (old_pk = <<>>) # (new_pk = <<>>)
    \/ old_pk # <<>> /\ new_pk # <<>> /\ ~doIndexesMatch(old_pk[1], new_pk[1])

\* Lines 362-377: rows sharing an id are one foreign key.
OldForeignKeys(rows) ==
    LET firsts == SelectSeq([i \in 1..Len(rows) |-> i],
                            LAMBDA i : \A j \in 1..(i - 1) : rows[j].id # rows[i].id)
    IN [k \in 1..Len(firsts) |->
          LET r == rows[firsts[k]]
              same == SelectSeq(rows, LAMBDA x : x.id = r.id)
          IN [table |-> r.table,
              references |-> [j \in 1..Len(same) |-> [from |-> same[j].from, to |-> same[j].to]],
              on_update |-> r.on_update, on_delete |-> r.on_delete]]

\* Lines 384-399.
ForeignKeysChanged(old_foreign_keys, foreign_keys) ==
    IF Len(old_foreign_keys) # Len(foreign_keys) THEN TRUE
    ELSE \E i \in 1..Len(old_foreign_keys) :
            \A j \in 1..Len(foreign_keys) :
                ~doForeignKeysMatch(old_foreign_keys[i], foreign_keys[j])

\* Lines 411-419.
RewriteSQLs(tbldef, common) ==
    <<getCreateTableSQL(tbldef, TmpName(tbldef)),
      [op |-> "insert_select", table |-> TmpName(tbldef), columns |-> common,
       from |-> tbldef.name],
      [op |-> "drop_table", table |-> tbldef.name],
      [op |-> "rename_table", table |-> TmpName(tbldef), to |-> tbldef.name]>>
    \o getCreateIndexSQLs(tbldef, TmpName(tbldef))

\* Lines 428-450.
DropIndexSQLs(old_idxdefs, tbldef) ==
    LET new == NewIndexes(tbldef)
        gone == SelectSeq(old_idxdefs, LAMBDA x : ~HasName(new, x.name))
        changed == SelectSeq(new, LAMBDA x : /\ HasName(old_idxdefs, x.name)
                                             /\ ~doIndexesMatch(ByName(old_idxdefs, x.name), x))
    IN [i \in 1..Len(gone) |-> [op |-> "drop_index", name |-> gone[i].name]]
       \o [i \in 1..Len(changed) |-> [op |-> "drop_index", name |-> changed[i].name]]

CreateIndexSQLs(old_idxdefs, tbldef) ==
    LET todo == SelectSeq(NewIndexes(tbldef),
                    LAMBDA x : \/ ~HasName(old_idxdefs, x.name)
                               \/ ~doIndexesMatch(ByName(old_idxdefs, x.name), x))
    IN [i \in 1..Len(todo) |-> indexDefinitionToSQL(todo[i], tbldef.name)]

\* ------------------------------------------------------------------ inputs
\* Declared table definitions, and the databases they are reconciled against.
T == <<"t">>
P == <<"p">>

ColId == [name |-> "id", type |-> "INTEGER", notnull |-> TRUE, dflt_value |-> Str(<<"0">>)]
ColA == [name |-> "a", type |-> "TEXT", notnull |-> TRUE, dflt_value |-> Str(<<>>)]
ColAInteger == [ColA EXCEPT !.type = "INTEGER"]
ColANull == [ColA EXCEPT !.notnull = FALSE, !.dflt_value = JSNull]
ColANullable == [ColA EXCEPT !.notnull = FALSE]
ColADefault == [ColA EXCEPT !.dflt_value = Str(<<"z">>)]
ColB == [name |-> "b", type |-> "TEXT", notnull |-> FALSE, dflt_value |-> JSNull]
ColBQuote == [ColB EXCEPT !.notnull = TRUE, !.dflt_value = Str(<<"x", Q>>)]
ColBQuotes == [ColB EXCEPT !.dflt_value = Str(<<Q, Q>>)]

PKId == [name |-> <<>>, origin |-> "pk", columns |-> <<"id">>]
PKIdA == [name |-> <<>>, origin |-> "pk", columns |-> <<"id", "a">>]
PKA == [name |-> <<>>, origin |-> "pk", columns |-> <<"a">>]

IndexPool ==
    <<[name |-> <<"i1">>, origin |-> "c", columns |-> <<"a">>],
      [name |-> <<"i2">>, origin |-> "u", columns |-> <<"id", "a">>],
      [name |-> <<"i3">>, origin |-> "c", columns |-> <<"a", "id">>],
      [name |-> <<"i4">>, origin |-> "c", columns |-> <<"id">>]>>
I1Unique == [IndexPool[1] EXCEPT !.origin = "u"]

FKA == [table |-> P, references |-> <<[from |-> "a", to |-> "id"]>>]
FKB == [table |-> P, references |-> <<[from |-> "id", to |-> "id"]>>,
        on_update |-> "CASCADE", on_delete |-> "RESTRICT"]
FKC == [table |-> P, references |-> <<[from |-> "id", to |-> "id"], [from |-> "a", to |-> "a"]>>,
        on_update |-> "NO ACTION"]

Digit(k) == <<"1", "2", "3", "4">>[k]

SeedRow(k) ==
    <<[cn |-> "id", v |-> Str(<<"k", Digit(k)>>)],
      [cn |-> "a", v |-> IF k = 2 THEN Str(<<"x", Q>>) ELSE Str(<<"x">>)]>>
SeedDirective(k) ==
    IF k = 2 THEN [other_values |-> <<[cn |-> "a", v |-> Str(<<"y">>)]>>]
    ELSE [identifiers |-> <<[cn |-> "id", v |-> Str(<<"k", Digit(k)>>)]>>,
          other_values |-> <<[cn |-> "id", v |-> Str(<<"k", Digit(k)>>)], [cn |-> "a", v |-> Str(<<"y">>)]>>]

Base == [name |-> T, columns |-> <<ColId, ColA>>, indexes |-> <<PKId>>]
WithIndexes(d, idx) == [d EXCEPT !.indexes = @ \o idx]

ColumnVariants ==
    {[Base EXCEPT !.columns = cs] :
        cs \in {<<ColId, ColA, ColB>>, <<ColId, ColAInteger>>, <<ColId, ColANull>>,
                <<ColId, ColB>>, <<ColId, ColA, ColBQuote>>, <<ColId, ColA, ColBQuotes>>,
                <<ColId, ColANullable>>, <<ColId, ColADefault>>}}
PKVariants ==
    {[Base EXCEPT !.indexes = <<>>], [Base EXCEPT !.indexes = <<PKIdA>>]}
        \cup {[Base EXCEPT !.indexes = <<pk>>, !.columns = <<ColId, a>>] :
                pk \in {PKIdA, PKA}, a \in {ColA, ColANullable, ColADefault}}
IndexVariants ==
    {WithIndexes(Base, SubSeq(IndexPool, 1, k)) : k \in 1..MaxIndexes}
        \cup {WithIndexes(Base, <<I1Unique>>)}
FKVariants ==
    {Base @@ [foreign_keys |-> fks] : fks \in {<<FKA>>, <<FKA, FKA>>, <<FKA, FKB>>, <<FKC>>}}
\* Directives whose match key is a null value of the nullable column a.
NullKey == <<[cn |-> "a", v |-> JSNull]>>
NullKeySeeds ==
    [Base EXCEPT !.columns = <<ColId, ColANull>>]
        @@ [insert_if_not_exists |-> <<[identifiers |-> NullKey]>>,
            update_if_exists |-> <<[identifiers |-> NullKey,
                                    other_values |-> <<[cn |-> "a", v |-> Str(<<"y">>)]>>]>>,
            delete_if_exists |-> <<NullKey>>]
\* Directives that find the row insert_on_create made.
MatchingSeeds ==
    Base @@ [insert_on_create |-> <<SeedRow(1)>>,
             update_if_exists |-> <<SeedDirective(1)>>,
             delete_if_exists |-> <<<<[cn |-> "a", v |-> Str(<<"y">>)]>>>>]
SeedVariants ==
    {Base @@ [insert_on_create |-> [i \in 1..k |-> SeedRow(i)]] : k \in 1..MaxSeeds}
        \cup {Base @@ [insert_if_not_exists |-> [i \in 1..k |-> SeedDirective(i)],
                       update_if_exists |-> [i \in 1..k |-> SeedDirective(i)],
                       delete_if_exists |-> [i \in 1..k |-> SeedRow(i)]] : k \in 1..MaxSeeds}
        \cup {NullKeySeeds, MatchingSeeds}

\* What a table declared as d looks like in the database, with all its indexes.
RECURSIVE ExecuteAll(_, _)
ExecuteAll(d, sqls) ==
    IF sqls = <<>> THEN d ELSE ExecuteAll(Execute(d, Head(sqls)).db, Tail(sqls))

LiveRow(d, t, k) == [c \in ColNames(d.tables[t]) |-> Str(<<"r", Digit(k)>>)]
WithRows(d, t, n) ==
    WithTable(d, t, [d.tables[t] EXCEPT !.rows = [k \in 1..n |-> LiveRow(d, t, k)]])
Built(d, foreign_keys) ==
    ExecuteAll([tables |-> <<>>, foreign_keys |-> foreign_keys],
               <<getCreateTableSQL(d, d.name)>> \o getCreateIndexSQLs(d, d.name))

\* A table created by other means: a bare numeric default, a primary key clause.
Foreign ==
    [op |-> "create_table", table |-> T,
     cols |-> <<[name |-> "id", type |-> "INTEGER", alias |-> FALSE, notnull |-> TRUE,
                 dflt |-> <<Q, "0", Q>>],
                [name |-> "a", type |-> "TEXT", alias |-> FALSE, notnull |-> TRUE,
                 dflt |-> <<Q, Q>>]>>,
     pk |-> <<"id">>, fks |-> <<>>]

OldDefs == {Base} \cup ColumnVariants \cup PKVariants \cup IndexVariants \cup FKVariants
NewDefs == OldDefs \cup SeedVariants

PDef == [name |-> P, columns |-> <<ColId, ColA>>]

Inputs ==
    {<<d>> : d \in NewDefs}
        \cup {<<PDef, d>> : d \in FKVariants}
        \cup {<<d, PDef>> : d \in IndexVariants}

Databases ==
    {[tables |-> <<>>, foreign_keys |-> f] : f \in {0, 1}}
    \cup {WithRows(Built(d, f), T, n) : d \in OldDefs \ {[Base EXCEPT !.columns = <<ColId, ColA, ColBQuotes>>]},
                                        f \in {0, 1}, n \in {0, 1}}
    \cup {Execute([tables |-> <<>>, foreign_keys |-> 1], Foreign).db}

\* ------------------------------------------------------------ orchestrator
tbldef == tbldefs[tblidx + 1]

LocInit ==
    [path |-> "none", needTableReWrite |-> FALSE,
     old_coldefs |-> <<>>, old_pk_cols_from_table_info |-> <<>>,
     drop_add_col_sqls |-> <<>>, old_new_common_colnames |-> <<>>,
     old_idxdefs |-> <<>>, old_pk |-> <<>>, idxq |-> 0, old_foreign_keys |-> <<>>,
     drop_idx_sqls |-> <<>>, create_idx_sqls |-> <<>>]

SelectSites == {"fk_select", "table_info", "index_list", "index_info", "fk_list"}

\* queryIndexColumns called without await.
AwaitsExceptIndexInfo(site) == site # "index_info"

\* Every select / execute call of the source is awaited.
Awaits(site) == TRUE

\* The loop of updateSchemasForAllTables catching the failure of one table.
UnwindCaughtInLoop(site) == "single_returned"

\* No frame between the failing call and the caller has a handler.
Unwind(site) == "failed"

\* Any row taken for an active flag.
ForeignKeysActiveAnyRow(rows) == Len(rows) > 0

\* Line 544.
ForeignKeysActive(rows) == Len(rows) > 0 /\ rows[1].foreign_keys # 0

\* Lines 192 and 191: the statement taken at index cmdi, and the two increments.
CommandAt(list, i) == list[i + 1]
AfterTake(i) == i + 1
AfterAwait(i) == i + 1

\* Number of index_info queries: one per old c/u index, one for the old pk.
IndexQueries == Len(loc.old_idxdefs) + Len(loc.old_pk)
QueriedIndex == IF loc.idxq <= Len(loc.old_idxdefs) THEN loc.old_idxdefs[loc.idxq]
                ELSE loc.old_pk[1]

SelectSQL ==
    CASE pc = "fk_select" -> [op |-> "pragma_foreign_keys"]
      [] pc = "table_info" -> [op |-> "pragma_table_info", arg |-> quote(Str(tbldef.name))]
      [] pc = "index_list" -> [op |-> "pragma_index_list", arg |-> quote(Str(tbldef.name))]
      [] pc = "index_info" -> [op |-> "pragma_index_info", arg |-> quote(Str(QueriedIndex.name))]
      [] pc = "fk_list" -> [op |-> "pragma_foreign_key_list", arg |-> quote(Str(tbldef.name))]

AlterSQL == [op |-> "alter_table", table |-> tbldef.name, clauses |-> loc.drop_add_col_sqls]

Event(ev, call, err) ==
    [ev |-> ev, kind |-> call.kind, sql |-> call.sql, run |-> call.run, tbl |-> call.tbl,
     err |-> err]

StartExec(list, cont) ==
    /\ cmdlist' = list
    /\ cmdi' = 0
    /\ batch' = <<>>
    /\ after' = cont
    /\ pc' = "exec"

Got(site) ==
    /\ pc = site
    /\ waiting
    /\ IF Awaits(site) THEN resp # <<>> /\ resp[1].ok ELSE TRUE
Rows == IF resp # <<>> THEN resp[1].rows ELSE <<>>
Resumed == waiting' = FALSE /\ resp' = <<>>

Init ==
    /\ tbldefs \in Inputs
    /\ db \in Databases
    /\ run = 0
    /\ tblidx = 0
    /\ pc = "idle"
    /\ waiting = FALSE
    /\ inflight = <<>>
    /\ resp = <<>>
    /\ thrown = ""
    /\ log = <<>>
    /\ disabledForeignKeys = FALSE
    /\ cmdlist = <<>>
    /\ cmdi = 0
    /\ after = "idle"
    /\ batch = <<>>
    /\ loc = LocInit
    /\ entry = db
    /\ value = JSNull
    /\ quoted = <<>>

\* The caller invokes updateSchemasForAllTables(tbldefs, select, execute).
updateSchemasForAllTables ==
    /\ pc = "idle"
    /\ run < MaxRuns
    /\ run' = run + 1
    /\ tblidx' = 0
    /\ pc' = "all_loop"
    /\ UNCHANGED <<value, quoted, tbldefs, db, waiting, inflight, resp, thrown, log,
                   disabledForeignKeys, cmdlist, cmdi, after, batch, loc, entry>>

\* The loop head of line 574: enter updateSchemaForSingleTable, or return.
NextTable ==
    /\ pc = "all_loop"
    /\ IF tblidx < Len(tbldefs)
       THEN /\ pc' = "fk_select"
            /\ disabledForeignKeys' = FALSE
            /\ loc' = LocInit
            /\ entry' = db
       ELSE /\ pc' = "idle"
            /\ UNCHANGED <<disabledForeignKeys, loc, entry>>
    /\ UNCHANGED <<value, quoted, tbldefs, db, run, tblidx, waiting, inflight, resp, thrown, log,
                   cmdlist, cmdi, after, batch>>

\* updateSchemaForSingleTable returned: line 574's increment.
TableDone ==
    /\ pc = "single_returned"
    /\ tblidx' = tblidx + 1
    /\ pc' = "all_loop"
    /\ UNCHANGED <<value, quoted, tbldefs, db, run, waiting, inflight, resp, thrown, log,
                   disabledForeignKeys, cmdlist, cmdi, after, batch, loc, entry>>

\* await select(sql)
IssueSelect ==
    /\ pc \in SelectSites
    /\ ~waiting
    /\ pc = "index_info" => loc.idxq <= IndexQueries
    /\ LET call == [kind |-> "select", sql |-> SelectSQL, run |-> run, tbl |-> tblidx,
                    awaited |-> Awaits(pc)]
       IN /\ inflight' = Append(inflight, call)
          /\ log' = Append(log, Event("issue", call, ""))
    /\ waiting' = TRUE
    /\ UNCHANGED <<value, quoted, tbldefs, db, run, tblidx, pc, resp, thrown,
                   disabledForeignKeys, cmdlist, cmdi, after, batch, loc, entry>>

\* await execute(sql): line 194 inside executeSQLCommands, and line 457.
IssueExecute ==
    /\ ~waiting
    /\ \/ /\ pc = "exec"
          /\ cmdi < Len(cmdlist)
          /\ LET call == [kind |-> "execute", sql |-> CommandAt(cmdlist, cmdi), run |-> run,
                          tbl |-> tblidx, awaited |-> Awaits(pc)]
             IN /\ inflight' = Append(inflight, call)
                /\ log' = Append(log, Event("issue", call, ""))
                /\ batch' = Append(batch, call.sql)
          /\ cmdi' = AfterTake(cmdi)
       \/ /\ pc = "alter"
          /\ loc.drop_add_col_sqls # <<>>
          /\ LET call == [kind |-> "execute", sql |-> AlterSQL, run |-> run,
                          tbl |-> tblidx, awaited |-> Awaits(pc)]
             IN /\ inflight' = Append(inflight, call)
                /\ log' = Append(log, Event("issue", call, ""))
          /\ UNCHANGED <<cmdi, batch>>
    /\ waiting' = TRUE
    /\ UNCHANGED <<value, quoted, tbldefs, db, run, tblidx, pc, resp, thrown,
                   disabledForeignKeys, cmdlist, after, loc, entry>>

Outcome(call) ==
    IF call.kind = "select"
    THEN [ok |-> Select(db, call.sql).ok, rows |-> Select(db, call.sql).rows, db |-> db]
    ELSE [ok |-> Execute(db, call.sql).ok, rows |-> <<>>, db |-> Execute(db, call.sql).db]

\* The collaborator completes the oldest outstanding call.
CollaboratorReturns ==
    /\ inflight # <<>>
    /\ LET call == Head(inflight)
           out == Outcome(call)
       IN /\ out.ok
          /\ db' = out.db
          /\ resp' = IF call.awaited THEN <<[ok |-> TRUE, rows |-> out.rows, err |-> ""]>>
                      ELSE resp
          /\ log' = Append(log, Event("return", call, ""))
    /\ inflight' = Tail(inflight)
    /\ UNCHANGED <<value, quoted, tbldefs, run, tblidx, pc, waiting, thrown,
                   disabledForeignKeys, cmdlist, cmdi, after, batch, loc, entry>>

\* The collaborator rejects the oldest outstanding call: the statement is in
\* error, or the call fails for a reason of its own.
CollaboratorFails ==
    /\ inflight # <<>>
    /\ LET call == Head(inflight)
       IN /\ \E err \in {"SQLITE_IOERR"} \cup
                        (IF Outcome(call).ok THEN {} ELSE {"SQLITE_ERROR"}) :
                /\ resp' = IF call.awaited THEN <<[ok |-> FALSE, rows |-> <<>>, err |-> err]>>
                           ELSE resp
                /\ log' = Append(log, Event("fail", call, err))
    /\ inflight' = Tail(inflight)
    /\ UNCHANGED <<value, quoted, tbldefs, db, run, tblidx, pc, waiting, thrown,
                   disabledForeignKeys, cmdlist, cmdi, after, batch, loc, entry>>

\* The awaited call rejected: the exception leaves every frame.
Throw ==
    /\ waiting
    /\ resp # <<>>
    /\ ~resp[1].ok
    /\ pc' = Unwind(pc)
    /\ thrown' = resp[1].err
    /\ Resumed
    /\ UNCHANGED <<value, quoted, tbldefs, db, run, tblidx, inflight, log,
                   disabledForeignKeys, cmdlist, cmdi, after, batch, loc, entry>>

\* Lines 543-548.
ForeignKeysQueried ==
    /\ Got("fk_select")
    /\ IF ForeignKeysActive(Rows)
       THEN StartExec(<<[op |-> "pragma_foreign_keys_set", value |-> 0]>>, "fk_disabled")
       ELSE /\ pc' = "table_info"
            /\ UNCHANGED <<cmdlist, cmdi, after, batch>>
    /\ Resumed
    /\ UNCHANGED <<value, quoted, tbldefs, db, run, tblidx, inflight, thrown, log,
                   disabledForeignKeys, loc, entry>>

\* Line 546.
ForeignKeysDisabled ==
    /\ pc = "fk_disabled"
    /\ disabledForeignKeys' = TRUE
    /\ pc' = "table_info"
    /\ UNCHANGED <<value, quoted, tbldefs, db, run, tblidx, waiting, inflight, resp, thrown, log,
                   cmdlist, cmdi, after, batch, loc, entry>>

\* Lines 554-560, with createMissingTable's first statement (line 201) or
\* updateExistingTable up to its first query (lines 220-303).
TableInfoQueried ==
    /\ Got("table_info")
    /\ Resumed
    /\ IF Rows = <<>>
       THEN /\ StartExec(<<getCreateTableSQL(tbldef, tbldef.name)>>, "create_indexes")
            /\ loc' = [loc EXCEPT !.path = "create"]
            /\ UNCHANGED thrown
       ELSE IF ~OldColumns(Rows).ok
       THEN /\ pc' = Unwind(pc)
            /\ thrown' = "ReferenceError"
            /\ UNCHANGED <<cmdlist, cmdi, after, batch, loc>>
       ELSE LET old == OldColumns(Rows).cols
            IN /\ loc' = [loc EXCEPT
                     !.old_coldefs = old,
                     !.old_pk_cols_from_table_info = OldPKColsFromTableInfo(Rows),
                     !.drop_add_col_sqls = DropColumnSQLs(old, tbldef) \o AddColumnSQLs(old, tbldef),
                     !.old_new_common_colnames = CommonColnames(old, tbldef),
                     !.needTableReWrite = ColumnsNeedReWrite(old, tbldef)]
               /\ pc' = "index_list"
               /\ UNCHANGED <<cmdlist, cmdi, after, batch, thrown>>
    /\ UNCHANGED <<value, quoted, tbldefs, db, run, tblidx, inflight, log, disabledForeignKeys, entry>>

\* createMissingTable, line 202.
CreateIndexes ==
    /\ pc = "create_indexes"
    /\ StartExec(getCreateIndexSQLs(tbldef, tbldef.name), "create_inserts")
    /\ UNCHANGED <<value, quoted, tbldefs, db, run, tblidx, waiting, inflight, resp, thrown, log,
                   disabledForeignKeys, loc, entry>>

\* createMissingTable, lines 203-214.
InsertOnCreate ==
    /\ pc = "create_inserts"
    /\ StartExec(InsertOnCreateSQLs(tbldef), "seed_insert")
    /\ UNCHANGED <<value, quoted, tbldefs, db, run, tblidx, waiting, inflight, resp, thrown, log,
                   disabledForeignKeys, loc, entry>>

\* handleDataTransformations, lines 469-500.
InsertIfNotExists ==
    /\ pc = "seed_insert"
    /\ StartExec(InsertIfNotExistsSQLs(tbldef), "seed_update")
    /\ UNCHANGED <<value, quoted, tbldefs, db, run, tblidx, waiting, inflight, resp, thrown, log,
                   disabledForeignKeys, loc, entry>>

\* handleDataTransformations, lines 503-522.
UpdateIfExists ==
    /\ pc = "seed_update"
    /\ StartExec(UpdateIfExistsSQLs(tbldef), "seed_delete")
    /\ UNCHANGED <<value, quoted, tbldefs, db, run, tblidx, waiting, inflight, resp, thrown, log,
                   disabledForeignKeys, loc, entry>>

\* handleDataTransformations, lines 525-535.
DeleteIfExists ==
    /\ pc = "seed_delete"
    /\ StartExec(DeleteIfExistsSQLs(tbldef), "restore")
    /\ UNCHANGED <<value, quoted, tbldefs, db, run, tblidx, waiting, inflight, resp, thrown, log,
                   disabledForeignKeys, loc, entry>>

\* Lines 309-322.
IndexListQueried ==
    /\ Got("index_list")
    /\ Resumed
    /\ loc' = [loc EXCEPT !.old_idxdefs = OldIndexes(Rows), !.old_pk = OldPK(Rows), !.idxq = 1]
    /\ pc' = "index_info"
    /\ UNCHANGED <<value, quoted, tbldefs, db, run, tblidx, inflight, thrown, log,
                   disabledForeignKeys, cmdlist, cmdi, after, batch, entry>>

\* queryIndexColumns, lines 328-331, and the loop step of lines 334-339.
IndexInfoQueried ==
    /\ Got("index_info")
    /\ Resumed
    /\ LET cols == [i \in 1..Len(Rows) |-> Rows[i].name]
       IN loc' = IF loc.idxq <= Len(loc.old_idxdefs)
                 THEN [loc EXCEPT !.old_idxdefs[loc.idxq].columns = @ \o cols,
                                  !.idxq = @ + 1]
                 ELSE [loc EXCEPT !.old_pk[1].columns = @ \o cols, !.idxq = @ + 1]
    /\ UNCHANGED <<value, quoted, tbldefs, db, run, tblidx, pc, inflight, thrown, log,
                   disabledForeignKeys, cmdlist, cmdi, after, batch, entry>>

\* Lines 345-355.
ComparePrimaryKey ==
    /\ pc = "index_info"
    /\ ~waiting
    /\ loc.idxq > IndexQueries
    /\ LET old_pk == IF loc.old_pk = <<>> /\ loc.old_pk_cols_from_table_info # <<>>
                     THEN <<[name |-> <<>>, origin |-> "pk",
                             columns |-> loc.old_pk_cols_from_table_info]>>
                     ELSE loc.old_pk
       IN loc' = [loc EXCEPT
                    !.old_pk = old_pk,
                    !.needTableReWrite = @ \/ PrimaryKeyChanged(old_pk, DeclaredPK(tbldef))]
    /\ pc' = "fk_list"
    /\ UNCHANGED <<value, quoted, tbldefs, db, run, tblidx, waiting, inflight, resp, thrown, log,
                   disabledForeignKeys, cmdlist, cmdi, after, batch, entry>>

\* Lines 362-400.
ForeignKeyListQueried ==
    /\ Got("fk_list")
    /\ Resumed
    /\ loc' = [loc EXCEPT
                 !.old_foreign_keys = OldForeignKeys(Rows),
                 !.needTableReWrite =
                    @ \/ ForeignKeysChanged(OldForeignKeys(Rows), getArray(tbldef, "foreign_keys"))]
    /\ pc' = "decided"
    /\ UNCHANGED <<value, quoted, tbldefs, db, run, tblidx, inflight, thrown, log,
                   disabledForeignKeys, cmdlist, cmdi, after, batch, entry>>

\* Lines 402-421.
RewriteTable ==
    /\ pc = "decided"
    /\ loc.needTableReWrite
    /\ StartExec(RewriteSQLs(tbldef, loc.old_new_common_colnames), "create_idx")
    /\ loc' = [loc EXCEPT !.path = "rewrite"]
    /\ UNCHANGED <<value, quoted, tbldefs, db, run, tblidx, waiting, inflight, resp, thrown, log,
                   disabledForeignKeys, entry>>

\* Lines 423-453.
AlterInPlace ==
    /\ pc = "decided"
    /\ ~loc.needTableReWrite
    /\ loc' = [loc EXCEPT !.path = "incremental",
                          !.drop_idx_sqls = DropIndexSQLs(loc.old_idxdefs, tbldef),
                          !.create_idx_sqls = CreateIndexSQLs(loc.old_idxdefs, tbldef)]
    /\ StartExec(DropIndexSQLs(loc.old_idxdefs, tbldef), "alter")
    /\ UNCHANGED <<value, quoted, tbldefs, db, run, tblidx, waiting, inflight, resp, thrown, log,
                   disabledForeignKeys, entry>>

\* Lines 454-458: the ALTER statement was executed, or there is none to execute.
Altered ==
    /\ \/ Got("alter") /\ Resumed
       \/ pc = "alter" /\ ~waiting /\ loc.drop_add_col_sqls = <<>> /\ UNCHANGED <<waiting, resp>>
    /\ pc' = "create_idx"
    /\ UNCHANGED <<value, quoted, tbldefs, db, run, tblidx, inflight, thrown, log,
                   disabledForeignKeys, cmdlist, cmdi, after, batch, loc, entry>>

\* Line 461.
CreateChangedIndexes ==
    /\ pc = "create_idx"
    /\ StartExec(loc.create_idx_sqls, "seed_insert")
    /\ UNCHANGED <<value, quoted, tbldefs, db, run, tblidx, waiting, inflight, resp, thrown, log,
                   disabledForeignKeys, loc, entry>>

\* Lines 563-565.
RestoreForeignKeys ==
    /\ pc = "restore"
    /\ IF disabledForeignKeys
       THEN StartExec(<<[op |-> "pragma_foreign_keys_set", value |-> 1]>>, "single_returned")
       ELSE /\ pc' = "single_returned"
            /\ UNCHANGED <<cmdlist, cmdi, after, batch>>
    /\ UNCHANGED <<value, quoted, tbldefs, db, run, tblidx, waiting, inflight, resp, thrown, log,
                   disabledForeignKeys, loc, entry>>

\* executeSQLCommands: execute returned, the loop's increment (line 191).
Executed ==
    /\ Got("exec")
    /\ Resumed
    /\ cmdi' = AfterAwait(cmdi)
    /\ UNCHANGED <<value, quoted, tbldefs, db, run, tblidx, pc, inflight, thrown, log,
                   disabledForeignKeys, cmdlist, after, batch, loc, entry>>

\* executeSQLCommands: the loop condition fails (line 191), return to the caller.
ExecutedAll ==
    /\ pc = "exec"
    /\ ~waiting
    /\ cmdi >= Len(cmdlist)
    /\ pc' = after
    /\ UNCHANGED <<value, quoted, tbldefs, db, run, tblidx, waiting, inflight, resp, thrown, log,
                   disabledForeignKeys, cmdlist, cmdi, after, batch, loc, entry>>

Next ==
    \/ updateSchemasForAllTables
    \/ NextTable
    \/ TableDone
    \/ IssueSelect
    \/ IssueExecute
    \/ CollaboratorReturns
    \/ CollaboratorFails
    \/ Throw
    \/ ForeignKeysQueried
    \/ ForeignKeysDisabled
    \/ TableInfoQueried
    \/ CreateIndexes
    \/ InsertOnCreate
    \/ InsertIfNotExists
    \/ UpdateIfExists
    \/ DeleteIfExists
    \/ IndexListQueried
    \/ IndexInfoQueried
    \/ ComparePrimaryKey
    \/ ForeignKeyListQueried
    \/ RewriteTable
    \/ AlterInPlace
    \/ Altered
    \/ CreateChangedIndexes
    \/ RestoreForeignKeys
    \/ Executed
    \/ ExecutedAll

Spec == Init /\ [][Next]_vars

\* --------------------------------------------------------- quote on its own
\* quote applied to null and to every string of at most MaxLen characters over
\* an alphabet holding the quote character.
Alphabet == {Q, "a"}
Strings == UNION {[1..n -> Alphabet] : n \in 0..MaxLen}

QuoteInit ==
    /\ value \in {JSNull} \cup {Str(s) : s \in Strings}
    /\ quoted = <<>>
    /\ tbldefs = <<>>
    /\ db = [tables |-> <<>>, foreign_keys |-> 0]
    /\ run = 0
    /\ tblidx = 0
    /\ pc = "idle"
    /\ waiting = FALSE
    /\ inflight = <<>>
    /\ resp = <<>>
    /\ thrown = ""
    /\ log = <<>>
    /\ disabledForeignKeys = FALSE
    /\ cmdlist = <<>>
    /\ cmdi = 0
    /\ after = "idle"
    /\ batch = <<>>
    /\ loc = LocInit
    /\ entry = db

\* A caller evaluates quote(value).
Quote ==
    /\ quoted = <<>>
    /\ quoted' = quote(value)
    /\ UNCHANGED <<value, tbldefs, db, run, tblidx, pc, waiting, inflight, resp, thrown, log,
                   disabledForeignKeys, cmdlist, cmdi, after, batch, loc, entry>>

QuoteNext == Quote

QuoteSpec == QuoteInit /\ [][QuoteNext]_vars

\* ----------------------------------------------------------------- claims
IsIssue(e, op) == e.ev = "issue" /\ e.sql.op = op
LastEvent == log[Len(log)]
ExecReturning == pc = "exec" /\ ~waiting /\ cmdi >= Len(cmdlist)
Ops(sqls) == [i \in 1..Len(sqls) |-> sqls[i].op]

\* C1: when executeSQLCommands returns without a failure, every statement of
\* its list was passed to execute exactly once, in list order.
C1_EveryStatementExecuted == ExecReturning => batch = cmdlist

\* C2 (idempotence): from the second run on, no statement is executed other
\* than the conditional seed directives and the foreign-key pragma toggle.
C2_SecondRunIssuesNoDDL ==
    \A i \in 1..Len(log) :
        (log[i].run >= 2 /\ log[i].kind = "execute")
            => log[i].sql.op \in {"insert_if_not_exists", "update", "delete",
                                  "pragma_foreign_keys_set"}

\* The declaration def as introspection of the live table named def.name reports it.
LiveMatchesDeclaration(d, def) ==
    /\ HasTable(d, def.name)
    /\ LET tab == d.tables[def.name]
           arg == quote(Str(def.name))
           rows == Select(d, [op |-> "pragma_table_info", arg |-> arg]).rows
           old == OldColumns(rows).cols
           new == getArray(def, "columns")
           pk == IF DeclaredPK(def) = <<>> THEN <<>> ELSE getArray(DeclaredPK(def)[1], "columns")
           alias(c) == Len(pk) = 1 /\ c.name = pk[1] /\ c.type = "INTEGER"
           idx == Select(d, [op |-> "pragma_index_list", arg |-> arg]).rows
           fks == OldForeignKeys(Select(d, [op |-> "pragma_foreign_key_list", arg |-> arg]).rows)
           decl == getArray(def, "foreign_keys")
       IN /\ OldColumns(rows).ok
          /\ Len(old) = Len(new)
          /\ \A i \in 1..Len(new) :
                /\ old[i].name = new[i].name
                /\ old[i].type = new[i].type
                /\ alias(new[i]) \/ ( /\ old[i].notnull = new[i].notnull
                                       /\ old[i].dflt_value = new[i].dflt_value )
          /\ OldPKColsFromTableInfo(rows) = pk
          /\ \A x \in Range(NewIndexes(def)) :
                \E y \in Range(idx) :
                    /\ y.name = x.name
                    /\ y.origin \in {"c", "u"}
                    /\ (y.origin = "u" \/ y.unique # 0) <=> x.origin = "u"
                    /\ [j \in 1..Len(IndexInfoRows(d, y.name)) |-> IndexInfoRows(d, y.name)[j].name]
                         = getArray(x, "columns")
          /\ Len(fks) = Len(decl)
          /\ \A i \in 1..Len(decl) : \E j \in 1..Len(fks) : doForeignKeysMatch(fks[j], decl[i])

\* C3 (create round-trip): after a successful run on the create path the live
\* table's columns, primary key, non-PK indexes and foreign keys match the
\* declaration.
C3_CreateRoundTrip ==
    (pc = "single_returned" /\ loc.path = "create") => LiveMatchesDeclaration(db, tbldef)

Count(seq, x) == Cardinality({i \in 1..Len(seq) : seq[i] = x})
LiveTable == db.tables[tbldef.name]
DeclaredColumns == getArray(tbldef, "columns")
DeclaredPKColumns ==
    IF DeclaredPK(tbldef) = <<>> THEN <<>> ELSE getArray(DeclaredPK(tbldef)[1], "columns")
DeclaredForeignKeys ==
    [i \in 1..Len(getArray(tbldef, "foreign_keys")) |->
        foreignKeyDefinitionToSQL(getArray(tbldef, "foreign_keys")[i])]
TypeChanged ==
    \E c \in Range(DeclaredColumns) :
        c.name \in ColNames(LiveTable) /\ ColOf(LiveTable, c.name).type # c.type
PKChanged == PKColumns(LiveTable) # DeclaredPKColumns
ForeignKeySetChanged ==
    \E f \in Range(LiveTable.fks) \cup Range(DeclaredForeignKeys) :
        Count(LiveTable.fks, f) # Count(DeclaredForeignKeys, f)
\* The live table is what a declaration old produced, and the declaration now
\* differs from old only in added / dropped columns and in non-PK indexes.
OnlyColumnsOrIndexesChanged ==
    \E old \in OldDefs :
        /\ tbldef.name = T
        /\ HasTable(Built(old, 0), T)
        /\ [LiveTable EXCEPT !.rows = <<>>] = Built(old, 0).tables[T]
        /\ \A c \in Range(old.columns) : \A n \in Range(DeclaredColumns) : c.name = n.name => c = n
        /\ DeclaredPK(old) = DeclaredPK(tbldef)
        /\ getArray(old, "foreign_keys") = getArray(tbldef, "foreign_keys")

\* C4 (rewrite trigger): a column-type, primary-key or foreign-key-set change
\* selects the rewrite path; a change of added / dropped columns or non-PK
\* indexes only selects the incremental path.
C4_RewriteTrigger ==
    pc = "decided" =>
        /\ (TypeChanged \/ PKChanged \/ ForeignKeySetChanged) => loc.needTableReWrite
        /\ OnlyColumnsOrIndexesChanged => ~loc.needTableReWrite

\* C5 (rewrite sequence): the rewrite path executes CREATE TABLE temp, INSERT ..
\* SELECT, DROP TABLE, RENAME, then one CREATE INDEX per declared c/u index; and
\* DROP TABLE is issued only after the copying INSERT has completed.
C5_RewriteSequence ==
    /\ (ExecReturning /\ after = "create_idx" /\ loc.path = "rewrite") =>
            Ops(batch) = <<"create_table", "insert_select", "drop_table", "rename_table">>
                            \o [i \in 1..Len(NewIndexes(tbldef)) |-> "create_index"]
    /\ \A i \in 1..Len(log) :
            IsIssue(log[i], "drop_table") =>
                \E j \in 1..(i - 1) :
                    /\ log[j].ev = "return" /\ log[j].sql.op = "insert_select"
                    /\ log[j].run = log[i].run /\ log[j].tbl = log[i].tbl

NoSeeds(def) ==
    /\ getArray(def, "insert_if_not_exists") = <<>>
    /\ getArray(def, "update_if_exists") = <<>>
    /\ getArray(def, "delete_if_exists") = <<>>

\* C6 (data preservation): after a successful run on the rewrite path the table
\* exists under its name and every row it held keeps the values of the common
\* columns, has lost the dropped columns and holds the declared default in the
\* added columns.
C6_DataPreserved ==
    (pc = "single_returned" /\ loc.path = "rewrite" /\ NoSeeds(tbldef)) =>
        /\ HasTable(db, tbldef.name)
        /\ LET before == entry.tables[tbldef.name]
               now == db.tables[tbldef.name]
           IN /\ Len(now.rows) = Len(before.rows)
              /\ \A i \in 1..Len(now.rows) :
                    /\ DOMAIN now.rows[i] = Range(Names(DeclaredColumns))
                    /\ \A c \in Range(DeclaredColumns) :
                          now.rows[i][c.name] =
                              IF c.name \in ColNames(before) THEN before.rows[i][c.name]
                              ELSE c.dflt_value

\* The events of the table being reconciled, in this run.
CurrentCalls == SelectSeq(log, LAMBDA e : e.run = run /\ e.tbl = tblidx)
InSingleTable == pc \notin {"idle", "all_loop"}
IsToggle(e, flag) == e.sql.op = "pragma_foreign_keys_set" /\ e.sql.value = flag

\* C7 (foreign-key toggle, success path): enforcement is switched off only when
\* the enforcement query reported it active, and then as the first statement
\* after that query; it is switched on again only as the last statement of a
\* run that switched it off; when it was inactive neither pragma assignment is
\* issued; after a successful run the flag has its value at entry.
C7_ToggleOnSuccessPath ==
    InSingleTable =>
        LET calls == CurrentCalls
        IN /\ \A i \in 1..Len(calls) :
                 (calls[i].ev = "issue" /\ IsToggle(calls[i], 0)) =>
                    /\ entry.foreign_keys # 0
                    /\ i = 3
                    /\ calls[1].sql.op = "pragma_foreign_keys"
                    /\ calls[2].ev = "return"
           /\ entry.foreign_keys = 0 =>
                 \A i \in 1..Len(calls) : calls[i].sql.op # "pragma_foreign_keys_set"
           /\ \A i \in 1..Len(calls) :
                 (calls[i].ev = "issue" /\ IsToggle(calls[i], 1)) =>
                    /\ \E j \in 1..(i - 1) : calls[j].ev = "return" /\ IsToggle(calls[j], 0)
                    /\ i >= Len(calls) - 1
           /\ pc = "single_returned" =>
                 /\ db.foreign_keys = entry.foreign_keys
                 /\ entry.foreign_keys # 0 =>
                       /\ calls[Len(calls)].ev = "return"
                       /\ IsToggle(calls[Len(calls)], 1)

C7_Witness ==
    /\ pc = "single_returned"
    /\ disabledForeignKeys
    /\ loc.path = "incremental"
    /\ \E i \in 1..Len(log) : log[i].sql.op = "alter_table" /\ log[i].ev = "return"
    /\ db.foreign_keys = 1

\* C8 (restoration on every exit path): when updateSchemaForSingleTable has
\* ended, by return or by exception, enforcement that it switched off is on again.
C8_RestoredOnEveryExit ==
    (pc \in {"single_returned", "failed"} /\ disabledForeignKeys) => db.foreign_keys = 1

\* C9 (failure propagation): the failure of a select / execute call reaches the
\* caller unchanged, and no select / execute call is issued after it.
C9_FailurePropagates ==
    /\ \A i \in 1..Len(log) : log[i].ev = "fail" => i = Len(log)
    /\ (log # <<>> /\ LastEvent.ev = "fail") =>
            \/ waiting /\ resp = <<[ok |-> FALSE, rows |-> <<>>, err |-> LastEvent.err]>>
            \/ pc = "failed" /\ thrown = LastEvent.err /\ inflight = <<>>

C9_Witness ==
    /\ pc = "failed"
    /\ thrown = "SQLITE_ERROR"
    /\ LastEvent.ev = "fail" /\ LastEvent.kind = "execute"
    /\ tblidx = 0
    /\ Len(tbldefs) = 2

\* C10 (strict sequencing): at most one select / execute call is outstanding,
\* every call completes before the next is issued, and within a run the calls
\* for the tables follow the order of the list.
C10_StrictSequencing ==
    /\ Len(inflight) <= 1
    /\ \A i \in 1..Len(log) :
          log[i].ev = "issue" =>
              IF i = Len(log) THEN inflight = <<[kind |-> log[i].kind, sql |-> log[i].sql,
                                                run |-> log[i].run, tbl |-> log[i].tbl,
                                                awaited |-> TRUE]>>
              ELSE /\ log[i + 1].ev \in {"return", "fail"}
                   /\ log[i + 1].sql = log[i].sql
                   /\ log[i + 1].run = log[i].run /\ log[i + 1].tbl = log[i].tbl
    /\ \A i \in 1..Len(log) : log[i].ev # "issue" => i > 1 /\ log[i - 1].ev = "issue"
    /\ \A i, j \in 1..Len(log) :
          (i < j /\ log[i].run = log[j].run) => log[i].tbl <= log[j].tbl
    /\ \A i, j \in 1..Len(log) : i < j => log[i].run <= log[j].run

C10_Witness ==
    /\ pc = "idle"
    /\ run = 1
    /\ Len(tbldefs) = 2
    /\ Cardinality({i \in 1..Len(log) : IsIssue(log[i], "pragma_index_info")}) >= 2
    /\ \E i \in 1..Len(log) : log[i].tbl = 1 /\ log[i].ev = "return"

\* Number of quote characters in a string.
QuoteCount(s) == Cardinality({i \in 1..Len(s) : s[i] = Q})

\* C13 (quote): null gives NULL; a string gives its text between two single
\* quotes with every embedded single quote doubled, so that the text between the
\* delimiters holds exactly twice the quote characters of the input and reads
\* back as the input.
C13_QuoteDoublesEveryQuote ==
    quoted # <<>> =>
        IF value.null THEN quoted = NULLText
        ELSE /\ Len(quoted) >= 2
             /\ quoted[1] = Q
             /\ quoted[Len(quoted)] = Q
             /\ QuoteCount(SubSeq(quoted, 2, Len(quoted) - 1)) = 2 * QuoteCount(value.str)
             /\ Unescape(SubSeq(quoted, 2, Len(quoted) - 1)) = [ok |-> TRUE, str |-> value.str]

\* The statements passed to execute for the table being reconciled, in this
\* run, without the foreign-key pragma assignments.
ExecutedOps ==
    LET ex == SelectSeq(CurrentCalls, LAMBDA e : /\ e.ev = "issue" /\ e.kind = "execute"
                                                 /\ e.sql.op # "pragma_foreign_keys_set")
    IN [i \in 1..Len(ex) |-> ex[i].sql.op]
\* Position of a statement in the order CREATE TABLE / update path, CREATE
\* INDEX, insert_on_create, insert_if_not_exists, update_if_exists, delete_if_exists.
Phase(op) ==
    CASE op = "create_index" -> 2
      [] op = "insert" -> 3
      [] op = "insert_if_not_exists" -> 4
      [] op = "update" -> 5
      [] op = "delete" -> 6
      [] OTHER -> 1
\* Number of statements the declared seed directives call for.
SeedCount(op) ==
    CASE op = "insert" -> Len(getArray(tbldef, "insert_on_create"))
      [] op = "insert_if_not_exists" ->
            Len(SelectSeq(getArray(tbldef, "insert_if_not_exists"),
                          LAMBDA d : getObject(d, "identifiers") # <<>>))
      [] op = "update" ->
            Len(SelectSeq(getArray(tbldef, "update_if_exists"),
                          LAMBDA d : /\ getObject(d, "identifiers") # <<>>
                                     /\ getObject(d, "other_values") # <<>>))
      [] op = "delete" ->
            Len(SelectSeq(getArray(tbldef, "delete_if_exists"), LAMBDA d : d # <<>>))

\* C11 (per-table orchestration): an empty table_info result selects the
\* create path, a non-empty one the update path; the create path executes
\* CREATE TABLE, the declared CREATE INDEX statements, one INSERT per
\* insert_on_create entry, then the conditional seeds; both paths end with the
\* conditional seeds in the order insert_if_not_exists, update_if_exists,
\* delete_if_exists; the update path executes no insert_on_create INSERT.
C11_PerTableOrchestration ==
    InSingleTable =>
        /\ loc.path # "none" => (loc.path = "create" <=> ~HasTable(entry, tbldef.name))
        /\ \A i, j \in 1..Len(ExecutedOps) :
              i < j => Phase(ExecutedOps[i]) <= Phase(ExecutedOps[j])
        /\ loc.path # "create" => Count(ExecutedOps, "insert") = 0
        /\ (pc = "restore" /\ loc.path = "create") =>
              /\ ExecutedOps[1] = "create_table"
              /\ Count(ExecutedOps, "create_table") = 1
              /\ Count(ExecutedOps, "create_index") = Len(NewIndexes(tbldef))
              /\ Count(ExecutedOps, "insert") = SeedCount("insert")
        /\ pc = "restore" =>
              \A op \in {"insert_if_not_exists", "update", "delete"} :
                  Count(ExecutedOps, op) = SeedCount(op)

\* The row holds the values of the match key (a JavaScript mapping column -> value).
RowHasKey(row, key) ==
    \A i \in 1..Len(key) : key[i].cn \in DOMAIN row /\ row[key[i].cn] = key[i].v
KeyCount(d, key) ==
    IF HasTable(d, tbldef.name)
    THEN Cardinality({i \in 1..Len(d.tables[tbldef.name].rows) :
                        RowHasKey(d.tables[tbldef.name].rows[i], key)})
    ELSE 0
\* The declaration of the table with the one seed directive d.
OnlyDirective(list, d) == [name |-> tbldef.name] @@ (list :> <<d>>)
\* The collaborator completes the statement st.
Completes(st) ==
    /\ inflight # <<>>
    /\ Head(inflight).sql = st
    /\ inflight' = Tail(inflight)
SeedsNeverDuplicate ==
    InSingleTable =>
        \A d \in Range(getArray(tbldef, "insert_if_not_exists")) :
            (getObject(d, "identifiers") # <<>> /\ KeyCount(entry, d.identifiers) <= 1)
                => KeyCount(db, d.identifiers) <= 1
SeedsWithoutMatchChangeNothing ==
    InSingleTable =>
    /\ \A d \in Range(getArray(tbldef, "update_if_exists")) :
          ( /\ UpdateIfExistsSQLs(OnlyDirective("update_if_exists", d)) # <<>>
            /\ Completes(UpdateIfExistsSQLs(OnlyDirective("update_if_exists", d))[1])
            /\ KeyCount(db, d.identifiers) = 0 ) => db' = db
    /\ \A d \in Range(getArray(tbldef, "delete_if_exists")) :
          ( /\ DeleteIfExistsSQLs(OnlyDirective("delete_if_exists", d)) # <<>>
            /\ Completes(DeleteIfExistsSQLs(OnlyDirective("delete_if_exists", d))[1])
            /\ KeyCount(db, d) = 0 ) => db' = db

\* C12 (seed idempotence): however often the same directives are applied,
\* insert_if_not_exists never leaves two rows holding the values of its
\* identifiers where at most one held them before; an update_if_exists with no
\* row holding its identifiers, and a delete_if_exists with no row holding its
\* keys, change nothing.
C12_SeedIdempotence == []SeedsNeverDuplicate /\ [][SeedsWithoutMatchChangeNothing]_vars

\* The table as it was when updateSchemaForSingleTable was entered.
EntryTable == entry.tables[tbldef.name]
\* The default of a live column as a value: none, or the value of its literal.
LiveDefault(col) ==
    IF col.dflt_value.null THEN JSNull ELSE SqlLiteral(col.dflt_value.str).val
\* A declared column that the live table has differs from it in a way that counts.
ColumnChanged(c) ==
    /\ c.name \in ColNames(EntryTable)
    /\ LET live == ColOf(EntryTable, c.name)
           inPK == c.name \in Range(DeclaredPKColumns)
           soleIntegerPK == DeclaredPKColumns = <<c.name>> /\ c.type = "INTEGER"
       IN \/ live.type # c.type
          \/ ~inPK /\ (live.notnull # 0) # c.notnull
          \/ ~soleIntegerPK /\ LiveDefault(live) # c.dflt_value
AnyColumnChanged == \E c \in Range(DeclaredColumns) : ColumnChanged(c)

\* C14 (column comparison): for the columns on both sides, a difference in
\* type, notnull or default sets the rewrite flag and selects the rewrite path,
\* except a notnull difference on a column of the declared primary key and a
\* default difference on the sole column of a declared INTEGER primary key;
\* nothing else in the column comparison sets the flag.
C14_ColumnComparison ==
    (InSingleTable /\ HasTable(entry, tbldef.name)) =>
        /\ pc = "index_list" => (loc.needTableReWrite <=> AnyColumnChanged)
        /\ (pc = "decided" /\ AnyColumnChanged) => loc.needTableReWrite
        /\ (loc.path \in {"rewrite", "incremental"} /\ AnyColumnChanged) => loc.path = "rewrite"

\* Declared NOT NULL DEFAULT '' against live NULL DEFAULT NULL on a column
\* outside the primary key: the rewrite path was taken.
C14_Witness ==
    /\ InSingleTable
    /\ loc.path = "rewrite"
    /\ HasTable(entry, tbldef.name)
    /\ DeclaredPKColumns = <<"id">>
    /\ ColA \in Range(DeclaredColumns)
    /\ ColOf(EntryTable, "a").notnull = 0
    /\ LiveDefault(ColOf(EntryTable, "a")) = JSNull
    /\ ColOf(EntryTable, "a").type = "TEXT"
    /\ \A c \in Range(DeclaredColumns) : c.name # "a" => ~ColumnChanged(c)

\* The statements passed to execute for the table being reconciled, in this run.
Executes == SelectSeq(CurrentCalls, LAMBDA e : e.ev = "issue" /\ e.kind = "execute")
\* The positions in Executes of the statements with operation op.
At(op) == {i \in 1..Len(Executes) : Executes[i].sql.op = op}
\* A live non-PK index as a declaration would describe it.
AsDeclared(x) ==
    [name |-> x.name, origin |-> IF x.unique # 0 THEN "u" ELSE "c", columns |-> x.columns]
LiveIndexes == {AsDeclared(x) : x \in Range(EntryTable.indexes)}
DeclaredIndexes ==
    {[name |-> d.name, origin |-> d.origin, columns |-> getArray(d, "columns")] :
        d \in Range(NewIndexes(tbldef))}
ExpectedClauses ==
    {[kind |-> "drop", name |-> n] : n \in ColNames(EntryTable) \ Range(Names(DeclaredColumns))}
        \cup {[kind |-> "add", name |-> n] :
                n \in Range(Names(DeclaredColumns)) \ ColNames(EntryTable)}

\* C15 (incremental path): the live non-PK indexes that are not declared as
\* they are get dropped, the declared non-PK indexes that are not live as
\* declared get created, one ALTER TABLE carries all the drop-column and
\* add-column clauses if there are any and none is issued otherwise; the
\* drops come before the ALTER and the creates after it.
C15_IncrementalPath ==
    (InSingleTable /\ loc.path = "incremental" /\ pc = "seed_insert") =>
        /\ {Executes[i].sql.name : i \in At("drop_index")} = {x.name : x \in LiveIndexes \ DeclaredIndexes}
        /\ Cardinality(At("drop_index")) = Cardinality(LiveIndexes \ DeclaredIndexes)
        /\ {[name |-> Executes[i].sql.name,
             origin |-> IF Executes[i].sql.unique THEN "u" ELSE "c",
             columns |-> Executes[i].sql.columns] : i \in At("create_index")}
              = DeclaredIndexes \ LiveIndexes
        /\ Cardinality(At("create_index")) = Cardinality(DeclaredIndexes \ LiveIndexes)
        /\ \A i \in At("create_index") : Executes[i].sql.table = tbldef.name
        /\ Cardinality(At("alter_table")) = IF ExpectedClauses = {} THEN 0 ELSE 1
        /\ \A i \in At("alter_table") :
              /\ {[kind |-> c.kind, name |-> c.name] : c \in Range(Executes[i].sql.clauses)}
                    = ExpectedClauses
              /\ Len(Executes[i].sql.clauses) = Cardinality(ExpectedClauses)
        /\ \A i \in At("drop_index") : \A j \in At("alter_table") \cup At("create_index") : i < j
        /\ \A i \in At("alter_table") : \A j \in At("create_index") : i < j

\* C16 (indexes of a rewritten table): on the rewrite path every CREATE INDEX
\* is issued after the RENAME has completed and names the original table, which
\* exists when the statement is issued; after the run the table exists under
\* its original name with every declared non-PK index, and nothing is left
\* under the temporary name.
C16_RewriteIndexesOnOriginalName ==
    (InSingleTable /\ loc.path = "rewrite") =>
        /\ \A i \in At("create_index") :
              /\ Executes[i].sql.table = tbldef.name
              /\ \E j \in 1..Len(CurrentCalls) :
                    CurrentCalls[j].ev = "return" /\ CurrentCalls[j].sql.op = "rename_table"
        /\ (inflight # <<>> /\ Head(inflight).sql.op = "create_index") =>
              /\ Head(inflight).sql.table = tbldef.name
              /\ HasTable(db, tbldef.name)
        /\ pc = "single_returned" =>
              /\ HasTable(db, tbldef.name)
              /\ DeclaredIndexes \subseteq {AsDeclared(x) : x \in Range(LiveTable.indexes)}
              /\ ~HasTable(db, TmpName(tbldef))

====
